---- MODULE Spec2Model ----
(***************************************************************************)
(* perf-tools: conversion of `perf script --header` text into a pprof      *)
(* profile (src/src/pprof.rs).                                             *)
(*                                                                         *)
(* PerfReader::new scans the input line by line (one action per line read),*)
(* then validates; PprofConverter::finish interns every frame of every     *)
(* aggregated sample (one action per location_id call), assembles the      *)
(* profile and writes it gzip-compressed to the sink.                      *)
(*                                                                         *)
(* Variables whose comment says "history" are not program state: they      *)
(* record facts about the input read so far, so that the properties can    *)
(* speak about the input.                                                  *)
(***************************************************************************)
EXTENDS Integers, Sequences, FiniteSets, TLC

\* ------------------------------------------------------------- bounds
\* Lines of one input that add to the reader's state: header lines, event
\* lines and stack lines that push a frame. Blank lines and dropped stack
\* lines are not counted.
MaxLines == 6
\* Header lines read in one conversion.
MaxHeaders == 2
\* Frames accumulated in one block.
MaxStack == 2
\* Event timestamps <sec>.<frac>: the first MaxStamp + 1 of 0.0, 0.1, 1.0, 1.1, ...
MaxStamp == 2

\* location_id calls made in a row on a fresh converter (SpecIntern).
MaxCalls == 4
\* Most from_reader calls made on one converter in a run of SpecReuse.
MaxConversions == 2
\* Most entries of an aggregation map handed to finish in SpecReuse.
MaxEntries == 2
\* Largest count of such an entry.
MaxCount == 2

\* ------------------------------------------------------------ the input
\* struct Stack {pc, func, module}: the frames the input lines may carry.
\* Two share an address under different function names, two differ only in
\* the module, one is named like a pre-seeded string.
Frames ==
    { [pc |-> 1, func |-> "f", module |-> "m"],
      [pc |-> 1, func |-> "g", module |-> "m"],
      [pc |-> 1, func |-> "f", module |-> "n"],
      [pc |-> 2, func |-> "cpu", module |-> "m"] }

\* What the event-line regex \S+\s+\d+\s+(\d+)\.(\d+) finds in a line:
\* <<>> when it does not match, else <<sec, frac>> (both parsed as u64).
Stamps == {<<>>} \cup {<<k \div 2, k % 2>> : k \in 0..MaxStamp}

\* How a line splits as a stack line. ntok: 1 when the line holds no ' '
\* (splitn gives one piece), 2 when the rest after the first ' ' holds no
\* ' ' (rsplitn gives one piece), 3 otherwise. pc: the value of the first
\* piece as base-16 u64, -1 when it is no such number. func/module: the two
\* pieces of the rest (ntok = 3).
Shapes ==
    { [ntok |-> n, pc |-> p, func |-> "", module |-> ""] :
          n \in {1, 2}, p \in {-1, 1} }
    \cup { [ntok |-> 3, pc |-> -1, func |-> "f", module |-> "m"] }
    \cup { [ntok |-> 3, pc |-> fr.pc, func |-> fr.func, module |-> fr.module] :
          fr \in Frames }

\* A non-blank line that does not start with '#'.
Lines == [ts : Stamps, shape : Shapes]

\* The values a "sample_freq } = <digits>" header may carry.
FreqValues == {3}

\* A header line, by what verify_header makes of it:
\*   capOk        contains "captured on", the time parses, local time single
\*   capAmb       contains "captured on", the time parses, local time is
\*                ambiguous or does not exist
\*   freq         matches the sample_freq pattern, digits fit u64
\*   freqOverflow matches the sample_freq pattern, digits do not fit u64
\*   other        anything else: a "captured on" line with no ':' or with a
\*                time that does not parse, or a line of neither kind
Headers ==
    { [k |-> "capOk", v |-> 1], [k |-> "capAmb", v |-> 0],
      [k |-> "freqOverflow", v |-> 0], [k |-> "other", v |-> 0] }
    \cup { [k |-> "freq", v |-> f] : f \in FreqValues }

VARIABLES
    pc,             \* "scan" (PerfReader::new's loop), "intern" (finish's
                    \* map over perf.sample), "done" (from_reader is over),
                    \* "exited" / "aborted" (the binary's main is over)
    is_event_line,  \* PerfReader::new locals
    sample,         \*   HashMap<Sample, u64>: frame sequence -> count
    header,         \*   Vec<String>
    stack,          \*   Vec<Stack>
    start_usec,
    end_usec,
    perf,           \* the PerfReader new returned: <<>> or <<[captured_time,
                    \* duration, freq]>>
    str_map,        \* PprofConverter.str_map: string -> id
    location,       \* PprofConverter.location: [next_id, map: addr -> <<id, function id>>]
    function,       \* PprofConverter.function: [next_id, map: name -> <<id, str id>>]
    todo,           \* finish: keys of perf.sample the iterator has not yielded
    cur,            \* finish: the key being mapped, <<>> between two samples
    locids,         \* finish: location ids collected for cur
    pb_sample,      \* finish: the pb::Sample values built so far
    result,         \* from_reader's outcome: "running", "ok", an error
                    \*   ("err_duration", "err_captured", "err_freq_parse",
                    \*   "err_io") or a panic ("panic_index", "panic_overflow",
                    \*   "panic_div_zero")
    out,            \* the byte sink: what has been written to it
    nread,          \* history: header, event and frame-pushing lines read
    inBlock,        \* history: a non-blank, non-header line was read since
                    \*   the last blank line (or the start)
    blockFrames,    \* history: frames of the current block's stack lines
                    \*   whose first piece is a base-16 u64
    nonEmptyBlocks, \* history: blocks so far holding at least one such line
    finalized,      \* history: frame sequences of the blocks ended by a
                    \*   blank line with at least one frame, in input order
    entryOf,        \* history: the map key each increment went to, in order
    blockDropped,   \* history: a stack line of the current block was dropped
    firstTs,        \* history: timestamp of the first timestamped event line, -1 if none
    lastTs,         \* history: timestamp of the latest timestamped event line, -1 if none
    nTs,            \* history: timestamped event lines read
    ioError,        \* history: the scan ended on a read error
    addrOrder,      \* history: addresses passed to location_id, by first sighting
    funcOrder,      \* history: function names interned, by first interning
    yielded,        \* history: the keys perf.sample.iter() has yielded, in order
    ncalls,         \* history: from_reader calls made on this converter so far
    file            \* the output file of the binary's main, as gzip members

reader == <<is_event_line, sample, header, stack, start_usec, end_usec>>
converter == <<str_map, location, function>>
finishLocals == <<todo, cur, locids, pb_sample>>
inputHistory == <<nread, inBlock, blockFrames, nonEmptyBlocks, finalized,
                  entryOf, blockDropped, firstTs, lastTs, nTs, ioError>>
internHistory == <<addrOrder, funcOrder>>
callHistory == <<yielded, ncalls>>
vars == <<pc, reader, perf, converter, finishLocals, result, out,
          inputHistory, internHistory, callHistory, file>>

\* ------------------------------------------------------------- helpers
Range(s) == {s[i] : i \in 1..Len(s)}

\* sec * 1_000_000 + usec
Micros(ts) == ts[1] * 1000000 + ts[2]

\* SampleKey with the frames put in one fixed order: stacks that hold the same
\* frames in different orders get the same key.
SampleKeyUnordered(st) ==
    CHOOSE q \in [1..Len(st) -> Range(st)] :
        \A fr \in Range(st) :
            Cardinality({i \in 1..Len(st) : q[i] = fr}) =
                Cardinality({i \in 1..Len(st) : st[i] = fr})

\* The key a finished stack has in the HashMap: Sample derives PartialEq, Eq
\* and Hash over Vec<Stack>, Stack derives them over (pc, func, module).
SampleKey(st) == st

\* sample.entry(key).or_insert(0); *count += 1
Bump(m, key) ==
    IF key \in DOMAIN m
        THEN [m EXCEPT ![key] = @ + 1]
        ELSE [k \in DOMAIN m \cup {key} |-> IF k = key THEN 1 ELSE m[k]]

EmptyMap == [k \in {} |-> 0]

\* Byte streams are sequences of chunks. prost's Message::encode gives the
\* bytes of one serialized Profile message.
Encode(profile) == <<[proto |-> profile]>>

\* main of perf2pprof and of cargo-perf: File::create(output), then
\* libflate::gzip::Encoder::new over the file, which starts a gzip member.
NewFile == <<[complete |-> FALSE, gzip |-> <<>>]>>

\* PprofConverter::new
SeedStrings == <<"", "samples", "count", "cpu", "nanoseconds">>
NewStrMap == [s \in Range(SeedStrings) |->
                 (CHOOSE i \in 1..Len(SeedStrings) : SeedStrings[i] = s) - 1]


\* ------------------------------------------------------ PerfReader::new
\* A stack line: splitn(2, ' '), from_str_radix(line[0], 16), rsplitn(2, ' ').
\* Indexing line[1] panics when the piece does not exist; the address is
\* parsed first, so a first piece that is no base-16 u64 never reaches it.
StackLinePanics(shape) == shape.pc # -1 /\ shape.ntok < 3

StackLineFrame(shape) ==
    [pc |-> shape.pc, func |-> shape.func, module |-> shape.module]

\* The stack after a stack line that does not panic.
PushFrame(st, shape) ==
    IF shape.pc # -1 THEN Append(st, StackLineFrame(shape)) ELSE st

\* FinishBlock without the is_empty test.
FinishBlockAlways(m, st) == Bump(m, SampleKey(st))

\* The map after a blank line: if !stack.is_empty() { entry(..) += 1 }.
FinishBlock(m, st) ==
    IF st # <<>> THEN Bump(m, SampleKey(st)) ELSE m

\* verify_header's loop from header i on, with dt (-1: None) and freq so far.
\* A "captured on" line is never looked at for sample_freq (else if); a
\* sample_freq value that does not fit u64 returns the parse error at once.
RECURSIVE VerifyFrom(_, _, _, _)
VerifyFrom(h, i, dt, freq) ==
    IF i > Len(h)
        THEN IF dt = -1
                 THEN [status |-> "err_captured", captured_time |-> -1, freq |-> 0]
                 ELSE [status |-> "ok", captured_time |-> dt, freq |-> freq]
        ELSE CASE h[i].k = "capOk" -> VerifyFrom(h, i + 1, h[i].v, freq)
               [] h[i].k = "capAmb" -> VerifyFrom(h, i + 1, -1, freq)
               [] h[i].k = "freq" -> VerifyFrom(h, i + 1, dt, h[i].v)
               [] h[i].k = "freqOverflow" ->
                      [status |-> "err_freq_parse", captured_time |-> -1, freq |-> 0]
               [] OTHER -> VerifyFrom(h, i + 1, dt, freq)

\* verify_header falling back to a default time when none was found.
verify_header_default_time(h) ==
    LET v == VerifyFrom(h, 1, -1, 0)
    IN  IF v.status = "err_captured"
            THEN [status |-> "ok", captured_time |-> 0, freq |-> 0]
            ELSE v

verify_header(h) == VerifyFrom(h, 1, -1, 0)

\* What new returns once the loop is left: the duration check, then
\* verify_header, then Duration::from_micros(end_usec - start_usec). The
\* subtraction is on u64: with end_usec < start_usec it panics in a build
\* with overflow checks and wraps in one without; the wrapped value
\* 2^64 + (end_usec - start_usec) is written here as the negative difference.
NewOutcomes(h, s, e) ==
    IF e = 0
        THEN {[status |-> "err_duration", captured_time |-> -1, duration |-> 0, freq |-> 0]}
        ELSE LET v == verify_header(h)
                 ok == [status |-> "ok", captured_time |-> v.captured_time,
                        duration |-> e - s, freq |-> v.freq]
             IN  IF v.status # "ok"
                     THEN {[status |-> v.status, captured_time |-> -1,
                            duration |-> 0, freq |-> 0]}
                     ELSE IF e < s
                              THEN {ok, [ok EXCEPT !.status = "panic_overflow"]}
                              ELSE {ok}

Init ==
    /\ pc = "scan"
    /\ is_event_line = TRUE
    /\ sample = EmptyMap
    /\ header = <<>>
    /\ stack = <<>>
    /\ start_usec = 0
    /\ end_usec = 0
    /\ perf = <<>>
    /\ str_map = NewStrMap
    /\ location = [next_id |-> 0, map |-> EmptyMap]
    /\ function = [next_id |-> 0, map |-> EmptyMap]
    /\ todo = {}
    /\ cur = <<>>
    /\ locids = <<>>
    /\ pb_sample = <<>>
    /\ result = "running"
    /\ out = <<>>
    /\ nread = 0
    /\ inBlock = FALSE
    /\ blockFrames = <<>>
    /\ nonEmptyBlocks = 0
    /\ finalized = <<>>
    /\ entryOf = <<>>
    /\ blockDropped = FALSE
    /\ firstTs = -1
    /\ lastTs = -1
    /\ nTs = 0
    /\ ioError = FALSE
    /\ addrOrder = <<>>
    /\ funcOrder = <<>>
    /\ yielded = <<>>
    /\ ncalls = 1
    /\ file = NewFile

CanRead == pc = "scan"

\* A line starting with '#': header.push(line.trim()); continue.
ReadHeader ==
    /\ CanRead
    /\ Len(header) < MaxHeaders
    /\ nread < MaxLines
    /\ \E h \in Headers : header' = Append(header, h)
    /\ nread' = nread + 1
    /\ UNCHANGED <<pc, is_event_line, sample, stack, start_usec, end_usec, perf,
                   converter, finishLocals, result, out, inBlock, blockFrames,
                   nonEmptyBlocks, finalized, entryOf, blockDropped, firstTs,
                   lastTs, nTs, ioError, internHistory, callHistory, file>>

\* ReadBlank without is_event_line = true: the line after a blank line is
\* taken as a stack line.
ReadBlankKeepToggle ==
    /\ CanRead
    /\ UNCHANGED is_event_line
    /\ sample' = FinishBlock(sample, stack)
    /\ stack' = <<>>
    /\ inBlock' = FALSE
    /\ finalized' = IF blockFrames # <<>> THEN Append(finalized, blockFrames)
                                          ELSE finalized
    /\ blockFrames' = <<>>
    /\ entryOf' = IF stack # <<>> THEN Append(entryOf, SampleKey(stack))
                                  ELSE entryOf
    /\ blockDropped' = FALSE
    /\ UNCHANGED <<pc, header, start_usec, end_usec, perf, converter,
                   finishLocals, result, out, nread, nonEmptyBlocks, firstTs,
                   lastTs, nTs, ioError, internHistory, callHistory, file>>

\* A line that is empty after trim(): the block ends.
ReadBlank ==
    /\ CanRead
    /\ is_event_line' = TRUE
    /\ sample' = FinishBlock(sample, stack)
    /\ stack' = <<>>
    /\ inBlock' = FALSE
    /\ finalized' = IF blockFrames # <<>> THEN Append(finalized, blockFrames)
                                          ELSE finalized
    /\ blockFrames' = <<>>
    /\ entryOf' = IF stack # <<>> THEN Append(entryOf, SampleKey(stack))
                                  ELSE entryOf
    /\ blockDropped' = FALSE
    /\ UNCHANGED <<pc, header, start_usec, end_usec, perf, converter,
                   finishLocals, result, out, nread, nonEmptyBlocks, firstTs,
                   lastTs, nTs, ioError, internHistory, callHistory, file>>

\* A non-blank line read while is_event_line holds.
ReadEventLine ==
    /\ CanRead
    /\ is_event_line
    /\ nread < MaxLines
    /\ \E line \in Lines :
        /\ IF line.ts # <<>>
               THEN /\ IF sample = EmptyMap
                           THEN /\ start_usec' = Micros(line.ts)
                                /\ UNCHANGED end_usec
                           ELSE /\ end_usec' = Micros(line.ts)
                                /\ UNCHANGED start_usec
                    /\ firstTs' = IF firstTs = -1 THEN Micros(line.ts) ELSE firstTs
                    /\ lastTs' = Micros(line.ts)
                    /\ nTs' = nTs + 1
               ELSE UNCHANGED <<start_usec, end_usec, firstTs, lastTs, nTs>>
    /\ is_event_line' = FALSE
    /\ nread' = nread + 1
    /\ inBlock' = TRUE
    /\ UNCHANGED <<pc, sample, header, stack, perf, converter, finishLocals,
                   result, out, blockFrames, nonEmptyBlocks, finalized, entryOf,
                   blockDropped, ioError, internHistory, callHistory, file>>

\* A non-blank line read while is_event_line does not hold.
ReadStackLine ==
    /\ CanRead
    /\ ~is_event_line
    /\ Len(stack) < MaxStack
    /\ \E line \in Lines :
        /\ line.shape.pc # -1 => nread < MaxLines
        /\ nread' = IF line.shape.pc # -1 THEN nread + 1 ELSE nread
        /\ IF StackLinePanics(line.shape)
               THEN /\ pc' = "done"
                    /\ result' = "panic_index"
                    /\ UNCHANGED stack
               ELSE /\ stack' = PushFrame(stack, line.shape)
                    /\ UNCHANGED <<pc, result>>
        /\ blockFrames' = IF line.shape.pc # -1
                              THEN Append(blockFrames, StackLineFrame(line.shape))
                              ELSE blockFrames
        /\ nonEmptyBlocks' = IF line.shape.pc # -1 /\ blockFrames = <<>>
                                 THEN nonEmptyBlocks + 1
                                 ELSE nonEmptyBlocks
        /\ blockDropped' = (blockDropped \/ line.shape.pc = -1)
    /\ inBlock' = TRUE
    /\ UNCHANGED <<is_event_line, sample, header, start_usec, end_usec, perf,
                   converter, finishLocals, out, finalized, entryOf,
                   firstTs, lastTs, nTs, ioError, internHistory, callHistory, file>>

\* The loop is left and new returns; on Ok, finish starts iterating perf.sample.
LeaveLoop ==
    \E r \in NewOutcomes(header, start_usec, end_usec) :
        IF r.status = "ok"
            THEN /\ pc' = "intern"
                 /\ perf' = <<[captured_time |-> r.captured_time,
                               duration |-> r.duration, freq |-> r.freq]>>
                 /\ todo' = DOMAIN sample
                 /\ UNCHANGED result
            ELSE /\ pc' = "done"
                 /\ result' = r.status
                 /\ UNCHANGED <<perf, todo>>

\* read_until returns Ok(0): break.
Eof ==
    /\ pc = "scan"
    /\ LeaveLoop
    /\ UNCHANGED <<reader, converter, cur, locids, pb_sample, out,
                   inputHistory, internHistory, callHistory, file>>

\* read_until returns Err: the else branch is break as well.
ReadError ==
    /\ pc = "scan"
    /\ LeaveLoop
    /\ ioError' = TRUE
    /\ UNCHANGED <<reader, converter, cur, locids, pb_sample, out, nread,
                   inBlock, blockFrames, nonEmptyBlocks, finalized, entryOf,
                   blockDropped, firstTs, lastTs, nTs, internHistory, callHistory, file>>

\* ------------------------------------------------------ PprofConverter
Conv == [str_map |-> str_map, location |-> location, function |-> function]

\* m with key k bound to v (HashMap insert of a key that is absent).
Put(m, k, v) == [x \in DOMAIN m \cup {k} |-> IF x = k THEN v ELSE m[x]]

\* InternFunction storing str_map.len() as the function's string id instead
\* of the id the entry holds.
InternFunctionLenAsStrId(c, name) ==
    IF name \in DOMAIN c.function.map
        THEN [conv |-> c, func_id |-> c.function.map[name][1]]
        ELSE LET s == Cardinality(DOMAIN c.str_map)
                 strs == IF name \in DOMAIN c.str_map
                             THEN c.str_map
                             ELSE Put(c.str_map, name, s)
                 fid == c.function.next_id + 1
             IN  [conv |-> [c EXCEPT !.str_map = strs,
                                     !.function = [next_id |-> fid,
                                                   map |-> Put(c.function.map, name,
                                                               <<fid, s>>)]],
                  func_id |-> fid]

\* InternFunction binding the name to str_map.len() with insert, whether or
\* not str_map already holds it.
InternFunctionOverwrite(c, name) ==
    IF name \in DOMAIN c.function.map
        THEN [conv |-> c, func_id |-> c.function.map[name][1]]
        ELSE LET s == Cardinality(DOMAIN c.str_map)
                 strs == Put(c.str_map, name, s)
                 fid == c.function.next_id + 1
             IN  [conv |-> [c EXCEPT !.str_map = strs,
                                     !.function = [next_id |-> fid,
                                                   map |-> Put(c.function.map, name,
                                                               <<fid, strs[name]>>)]],
                  func_id |-> fid]

\* self.function.map.entry(name).or_insert_with(..): the converter and the
\* function id of name. A new name takes the next function id; its string
\* id is the one str_map holds for it, or str_map.len() if it holds none.
InternFunction(c, name) ==
    IF name \in DOMAIN c.function.map
        THEN [conv |-> c, func_id |-> c.function.map[name][1]]
        ELSE LET s == Cardinality(DOMAIN c.str_map)
                 strs == IF name \in DOMAIN c.str_map
                             THEN c.str_map
                             ELSE Put(c.str_map, name, s)
                 fid == c.function.next_id + 1
             IN  [conv |-> [c EXCEPT !.str_map = strs,
                                     !.function = [next_id |-> fid,
                                                   map |-> Put(c.function.map, name,
                                                               <<fid, strs[name]>>)]],
                  func_id |-> fid]

\* location_id taking the next location id before the lookup: a hit burns an id.
LocationIdEagerCounter(c, addr, name) ==
    LET lid == c.location.next_id + 1
        c1 == [c EXCEPT !.location.next_id = lid]
    IN  IF addr \in DOMAIN c.location.map
            THEN [conv |-> c1, id |-> c.location.map[addr][1]]
            ELSE LET f == InternFunction(c1, name)
                 IN  [conv |-> [f.conv EXCEPT !.location =
                                    [next_id |-> lid,
                                     map |-> Put(c.location.map, addr, <<lid, f.func_id>>)]],
                      id |-> lid]

\* location_id resolving the function name before the lookup: a hit still
\* interns the name.
LocationIdEagerFunction(c, addr, name) ==
    LET f == InternFunction(c, name)
    IN  IF addr \in DOMAIN c.location.map
            THEN [conv |-> f.conv, id |-> c.location.map[addr][1]]
            ELSE LET lid == c.location.next_id + 1
                 IN  [conv |-> [f.conv EXCEPT !.location =
                                    [next_id |-> lid,
                                     map |-> Put(c.location.map, addr, <<lid, f.func_id>>)]],
                      id |-> lid]

\* location_id(addr, name): the converter after the call and the id returned.
LocationId(c, addr, name) ==
    IF addr \in DOMAIN c.location.map
        THEN [conv |-> c, id |-> c.location.map[addr][1]]
        ELSE LET lid == c.location.next_id + 1
                 f == InternFunction(c, name)
             IN  [conv |-> [f.conv EXCEPT !.location =
                                [next_id |-> lid,
                                 map |-> Put(c.location.map, addr, <<lid, f.func_id>>)]],
                  id |-> lid]

NanosPerSec == 1000000000

\* CpuNanos rounding the quotient up instead of truncating it.
CpuNanosCeil(count, freq) ==
    count * (NanosPerSec \div freq)
        + (count * (NanosPerSec % freq) + freq - 1) \div freq

\* count * 1_000_000_000 / freq on i64, freq > 0. Evaluated as
\* count * q + (count * r) / freq with 1_000_000_000 = q * freq + r, which is
\* the same number and keeps every intermediate value small.
CpuNanos(count, freq) ==
    count * (NanosPerSec \div freq) + (count * (NanosPerSec % freq)) \div freq

\* The records of set S (each with a distinct id) by ascending id:
\* collect() followed by sort_by(|a, b| a.id.cmp(&b.id)).
RECURSIVE SortById(_)
SortById(S) ==
    IF S = {} THEN <<>>
    ELSE LET lo == CHOOSE x \in S : \A y \in S : x.id <= y.id
         IN  <<lo>> \o SortById(S \ {lo})

\* The function, location and string_table lists finish builds from the tables.
FunctionList(c) ==
    SortById({[id |-> c.function.map[n][1], name |-> c.function.map[n][2]] :
                 n \in DOMAIN c.function.map})

LocationList(c) ==
    SortById({[id |-> c.location.map[a][1], address |-> a,
               line |-> <<[function_id |-> c.location.map[a][2], line |-> 0]>>] :
                 a \in DOMAIN c.location.map})

StringTable(c) ==
    LET byId == SortById({[id |-> c.str_map[t], str |-> t] : t \in DOMAIN c.str_map})
    IN  [i \in 1..Len(byId) |-> byId[i].str]

\* The pb::Profile finish encodes (freq > 0).
Profile(c, p, samples) ==
    [sample_type |-> <<[type |-> 1, unit |-> 2], [type |-> 3, unit |-> 4]>>,
     sample |-> samples,
     location |-> LocationList(c),
     function |-> FunctionList(c),
     time_nanos |-> p.captured_time * NanosPerSec,
     duration_nanos |-> p.duration * 1000,
     string_table |-> StringTable(c),
     period |-> NanosPerSec \div p.freq,
     period_type |-> [type |-> 3, unit |-> 4]]

\* perf.sample.iter() yields the next entry, in no particular order.
NextSample ==
    /\ pc = "intern"
    /\ cur = <<>>
    /\ \E k \in todo :
        /\ cur' = k
        /\ todo' = todo \ {k}
        /\ yielded' = Append(yielded, k)
    /\ locids' = <<>>
    /\ UNCHANGED <<pc, reader, perf, converter, pb_sample, result, out,
                   inputHistory, internHistory, ncalls, file>>

\* self.location_id(s.pc, &s.func) for the next frame of the current sample.
LocationIdCall ==
    /\ pc = "intern"
    /\ cur # <<>>
    /\ Len(locids) < Len(cur)
    /\ LET fr == cur[Len(locids) + 1]
           r == LocationId(Conv, fr.pc, fr.func)
       IN  /\ str_map' = r.conv.str_map
           /\ location' = r.conv.location
           /\ function' = r.conv.function
           /\ locids' = Append(locids, r.id)
           /\ addrOrder' = IF fr.pc \in Range(addrOrder)
                               THEN addrOrder ELSE Append(addrOrder, fr.pc)
           /\ funcOrder' = IF fr.pc \in Range(addrOrder) \/ fr.func \in Range(funcOrder)
                               THEN funcOrder ELSE Append(funcOrder, fr.func)
    /\ UNCHANGED <<pc, reader, perf, todo, cur, pb_sample, result, out,
                   inputHistory, callHistory, file>>

\* The sample's value vector: the division panics when freq is 0.
EmitSample ==
    /\ pc = "intern"
    /\ cur # <<>>
    /\ Len(locids) = Len(cur)
    /\ IF perf[1].freq = 0
           THEN /\ pc' = "done"
                /\ result' = "panic_div_zero"
                /\ UNCHANGED <<pb_sample, cur, locids>>
           ELSE /\ pb_sample' = Append(pb_sample,
                     [location_id |-> locids,
                      value |-> <<sample[cur], CpuNanos(sample[cur], perf[1].freq)>>])
                /\ cur' = <<>>
                /\ locids' = <<>>
                /\ UNCHANGED <<pc, result>>
    /\ UNCHANGED <<reader, perf, converter, todo, out, inputHistory,
                   internHistory, callHistory, file>>

\* The rest of finish: the lists, the Profile (period divides by freq and
\* panics when it is 0), encode, then the gzip encoder over the sink. A
\* failing sink ends the call with the error, after none or part of the bytes.
Assemble ==
    /\ pc = "intern"
    /\ cur = <<>>
    /\ todo = {}
    /\ pc' = "done"
    /\ IF perf[1].freq = 0
           THEN /\ result' = "panic_div_zero"
                /\ UNCHANGED out
           ELSE LET content == Encode(Profile(Conv, perf[1], pb_sample))
                IN  \/ /\ result' = "ok"
                       /\ out' = Append(out, [complete |-> TRUE, gzip |-> content])
                    \/ /\ result' = "err_io"
                       /\ out' \in {out, Append(out, [complete |-> FALSE, gzip |-> content])}
    /\ UNCHANGED <<reader, perf, converter, finishLocals, inputHistory,
                   internHistory, callHistory, file>>

\* main after from_reader(..).unwrap() returned Ok: the sink it handed to
\* from_reader is its own gzip encoder over the output file, and
\* encoder.finish().into_result().unwrap() ends that member. What went
\* through the sink is the payload of the file's member. A failing file ends
\* main in the unwrap with the member unfinished. An Err from from_reader or
\* a panic ends the process in the first unwrap, the file left as it is.
MainFinish ==
    /\ pc = "done"
    /\ result = "ok"
    /\ \/ /\ pc' = "exited"
          /\ file' = <<[complete |-> TRUE, gzip |-> out]>>
       \/ /\ pc' = "aborted"
          /\ file' \in {file, <<[complete |-> FALSE, gzip |-> out]>>}
    /\ UNCHANGED <<reader, perf, converter, finishLocals, result, out,
                   inputHistory, internHistory, callHistory>>

Next ==
    \/ ReadHeader
    \/ ReadBlank
    \/ ReadEventLine
    \/ ReadStackLine
    \/ Eof
    \/ ReadError
    \/ NextSample
    \/ LocationIdCall
    \/ EmitSample
    \/ Assemble
    \/ MainFinish

Spec == Init /\ [][Next]_vars

\* ------------------------------------------ location_id on its own
\* A fresh converter (PprofConverterBuilder::build) and any sequence of up to
\* MaxCalls frames handed to location_id, one call per step.
InitIntern ==
    /\ pc = "intern"
    /\ is_event_line = TRUE
    /\ sample = EmptyMap
    /\ header = <<>>
    /\ stack = <<>>
    /\ start_usec = 0
    /\ end_usec = 0
    /\ perf = <<>>
    /\ str_map = NewStrMap
    /\ location = [next_id |-> 0, map |-> EmptyMap]
    /\ function = [next_id |-> 0, map |-> EmptyMap]
    /\ todo = {}
    /\ cur \in UNION {[1..n -> Frames] : n \in 1..MaxCalls}
    /\ locids = <<>>
    /\ pb_sample = <<>>
    /\ result = "running"
    /\ out = <<>>
    /\ nread = 0
    /\ inBlock = FALSE
    /\ blockFrames = <<>>
    /\ nonEmptyBlocks = 0
    /\ finalized = <<>>
    /\ entryOf = <<>>
    /\ blockDropped = FALSE
    /\ firstTs = -1
    /\ lastTs = -1
    /\ nTs = 0
    /\ ioError = FALSE
    /\ addrOrder = <<>>
    /\ funcOrder = <<>>
    /\ yielded = <<>>
    /\ ncalls = 1
    /\ file = NewFile

NextIntern == LocationIdCall

SpecIntern == InitIntern /\ [][NextIntern]_vars

\* ------------------------------------- from_reader called repeatedly
\* The aggregation maps PerfReader::new can return in Ok: at least one
\* entry (end_usec is only set once the map is non-empty), each a stack of
\* 1..MaxStack frames with its count.
StackKeys == UNION {[1..n -> Frames] : n \in 1..MaxStack}

RECURSIVE KeySets(_)
KeySets(n) ==
    IF n = 0 THEN {{}}
    ELSE LET smaller == KeySets(n - 1)
         IN  smaller \cup {K \cup {k} : K \in smaller, k \in StackKeys}

SampleMaps == UNION {[K -> 1..MaxCount] : K \in KeySets(MaxEntries) \ {{}}}

\* A fresh converter and the first from_reader call on it, taken up where
\* PerfReader::new has returned Ok: any map of SampleMaps, a header with the
\* capture time and a frequency of FreqValues, one second between the
\* timestamps. The input lines behind the map are not followed here.
InitReuse ==
    /\ pc = "intern"
    /\ is_event_line = TRUE
    /\ sample \in SampleMaps
    /\ \E f \in FreqValues :
           /\ header = <<[k |-> "capOk", v |-> 1], [k |-> "freq", v |-> f]>>
           /\ perf = <<[captured_time |-> 1, duration |-> 1000000, freq |-> f]>>
    /\ stack = <<>>
    /\ start_usec = 0
    /\ end_usec = 1000000
    /\ str_map = NewStrMap
    /\ location = [next_id |-> 0, map |-> EmptyMap]
    /\ function = [next_id |-> 0, map |-> EmptyMap]
    /\ todo = DOMAIN sample
    /\ cur = <<>>
    /\ locids = <<>>
    /\ pb_sample = <<>>
    /\ result = "running"
    /\ out = <<>>
    /\ nread = 0
    /\ inBlock = FALSE
    /\ blockFrames = <<>>
    /\ nonEmptyBlocks = 0
    /\ finalized = <<>>
    /\ entryOf = <<>>
    /\ blockDropped = FALSE
    /\ firstTs = -1
    /\ lastTs = -1
    /\ nTs = 0
    /\ ioError = FALSE
    /\ addrOrder = <<>>
    /\ funcOrder = <<>>
    /\ yielded = <<>>
    /\ ncalls = 1
    /\ file = NewFile

\* from_reader(&mut self, ..) called again once the previous call returned
\* (Ok, or Err from the sink): finish makes a new PerfReader and new sample,
\* function, location and string lists, and works on the tables of self as
\* the previous call left them. The call is handed a new, empty sink.
FromReaderAgain ==
    /\ pc = "done"
    /\ result \in {"ok", "err_io"}
    /\ ncalls < MaxConversions
    /\ ncalls' = ncalls + 1
    /\ pc' = "intern"
    /\ sample' \in SampleMaps
    /\ \E f \in FreqValues :
           /\ header' = <<[k |-> "capOk", v |-> 1], [k |-> "freq", v |-> f]>>
           /\ perf' = <<[captured_time |-> 1, duration |-> 1000000, freq |-> f]>>
    /\ todo' = DOMAIN sample'
    /\ cur' = <<>>
    /\ locids' = <<>>
    /\ pb_sample' = <<>>
    /\ result' = "running"
    /\ out' = <<>>
    /\ yielded' = <<>>
    /\ UNCHANGED <<is_event_line, stack, start_usec, end_usec, converter,
                   inputHistory, internHistory, file>>

NextReuse ==
    \/ NextSample
    \/ LocationIdCall
    \/ EmitSample
    \/ Assemble
    \/ FromReaderAgain

SpecReuse == InitReuse /\ [][NextReuse]_vars

\* finish on converter c, as one function: the location ids of a stack's
\* frames, the samples of the map's entries in iteration order, the Profile.
RECURSIVE InternFrames(_, _)
InternFrames(c, st) ==
    IF st = <<>> THEN [conv |-> c, ids |-> <<>>]
    ELSE LET r == LocationId(c, st[1].pc, st[1].func)
             rest == InternFrames(r.conv, Tail(st))
         IN  [conv |-> rest.conv, ids |-> <<r.id>> \o rest.ids]

RECURSIVE ConvertSamples(_, _, _, _)
ConvertSamples(c, m, p, order) ==
    IF order = <<>> THEN [conv |-> c, samples |-> <<>>]
    ELSE LET k == order[1]
             r == InternFrames(c, k)
             rest == ConvertSamples(r.conv, m, p, Tail(order))
         IN  [conv |-> rest.conv,
              samples |-> <<[location_id |-> r.ids,
                             value |-> <<m[k], CpuNanos(m[k], p.freq)>>]>>
                          \o rest.samples]

\* PprofConverterBuilder::build().
NewConv ==
    [str_map |-> NewStrMap,
     location |-> [next_id |-> 0, map |-> EmptyMap],
     function |-> [next_id |-> 0, map |-> EmptyMap]]

\* The Profile a newly built converter emits for map m of PerfReader p, the
\* iterator yielding the entries in the given order.
FreshProfile(m, p, order) ==
    LET r == ConvertSamples(NewConv, m, p, order)
    IN  Profile(r.conv, p, r.samples)

\* ---------------------------------------------------------- properties
RECURSIVE SumCounts(_)
SumCounts(m) ==
    IF DOMAIN m = {} THEN 0
    ELSE LET k == CHOOSE x \in DOMAIN m : TRUE
         IN  m[k] + SumCounts([x \in DOMAIN m \ {k} |-> m[x]])

Panics == {"panic_index", "panic_overflow", "panic_div_zero"}
Errors == {"err_duration", "err_captured", "err_freq_parse", "err_io"}

\* The loop of PerfReader::new was left by break (not by a panic inside it).
ScanFinished == pc # "scan" /\ result # "panic_index"

\* PerfReader::new returned Ok.
NewOk == perf # <<>>

HeaderYieldsTime == \E i \in 1..Len(header) : header[i].k = "capOk"
HeaderHasFreqOverflow == \E i \in 1..Len(header) : header[i].k = "freqOverflow"
HeaderMatchesFreq == \E i \in 1..Len(header) : header[i].k \in {"freq", "freqOverflow"}

\* C1: once the scan has finished, the counts of the aggregation map add up
\* to the number of blocks of the input holding at least one valid frame,
\* whether or not the last block was followed by a blank line.
C1_CountsAllBlocks ==
    ScanFinished => SumCounts(sample) = nonEmptyBlocks

\* C2: two finalized blocks went to the same map entry iff their frame
\* sequences are equal (element-wise, in order), and every entry's count is
\* the number of finalized blocks with the frame sequence of that entry.
C2_MergeIffEqualSequence ==
    /\ Len(entryOf) = Len(finalized)
    /\ DOMAIN sample = Range(entryOf)
    /\ \A i, j \in 1..Len(finalized) :
           (entryOf[i] = entryOf[j]) <=> (finalized[i] = finalized[j])
    /\ \A i \in 1..Len(finalized) :
           sample[entryOf[i]] =
               Cardinality({j \in 1..Len(finalized) : finalized[j] = finalized[i]})

\* Blocks A,B and B,A were both finalized, and are two entries.
C2_Witness ==
    \E a, b \in Frames :
        /\ a # b
        /\ finalized = << <<a, b>>, <<b, a>> >>
        /\ Cardinality(DOMAIN sample) = 2

\* C3: when new succeeds, start is the timestamp of the first timestamped
\* event line, end that of the latest one, and the duration is end - start.
C3_StartEndDuration ==
    NewOk => /\ start_usec = firstTs
             /\ end_usec = lastTs
             /\ perf[1].duration = lastTs - firstTs

\* C4: an input with fewer than two timestamped event lines makes new return
\* the "can't find duration" error.
C4_FewerThanTwoStamps ==
    (ScanFinished /\ nTs < 2) => (~NewOk /\ result = "err_duration")

C6_ZeroFreqIsAnError ==
    (pc = "done" /\ NewOk /\ ~HeaderMatchesFreq) => result \in Errors

\* C7: a line in frame position never aborts the parse: it pushes exactly one
\* frame or leaves the stack as it is, and the scan goes on.
C7_FrameLineNeverAborts ==
    [][ReadStackLine =>
           /\ pc' = "scan"
           /\ \/ stack' = stack
              \/ /\ Len(stack') = Len(stack) + 1
                 /\ SubSeq(stack', 1, Len(stack)) = stack]_vars

\* C8: the stack in progress holds the block's valid frames in input order
\* (lines whose first piece is no base-16 number are dropped), a block that
\* ends with no valid frame leaves the map as it is, and no entry has an
\* empty frame sequence.
C8_DropBadFrames ==
    /\ pc = "scan" => stack = blockFrames
    /\ \A k \in DOMAIN sample : Len(k) > 0
    /\ DOMAIN sample = Range(finalized)
    /\ SumCounts(sample) = Len(finalized)

\* A block with no valid frame has ended and the map is still empty; the
\* current block dropped a line and holds its two valid frames.
C8_Witness ==
    /\ pc = "scan"
    /\ blockDropped
    /\ Len(stack) = 2
    /\ stack = blockFrames
    /\ nTs = 2
    /\ sample = EmptyMap

LocationHit ==
    /\ pc = "intern"
    /\ cur # <<>>
    /\ Len(locids) < Len(cur)
    /\ cur[Len(locids) + 1].pc \in DOMAIN location.map

\* C10: interning a frame whose address is already in the location table
\* returns the id it has and changes no table and no counter, whatever the
\* function name of the frame.
C10_HitChangesNothing ==
    [][(LocationHit /\ locids' # locids) =>
           /\ converter' = converter
           /\ locids' = Append(locids, location.map[cur[Len(locids) + 1].pc][1])]_vars

\* Such a call was made with a function name never interned.
C10_Witness ==
    /\ pc = "intern"
    /\ \E i \in 1..Len(locids) :
           /\ \E j \in 1..(i - 1) : cur[j].pc = cur[i].pc
           /\ cur[i].func \notin DOMAIN function.map

\* C11: in every converter state the ids of str_map are exactly
\* 0 .. len - 1, each bound to one string; "", "samples", "count", "cpu" and
\* "nanoseconds" hold ids 0 .. 4 in that order; and the string_table finish
\* emits has at position i (counted from 0) the string whose id is i. This
\* holds as well once a function named like a seeded string was interned.
C11_StringTableDense ==
    LET n == Cardinality(DOMAIN str_map)
        table == StringTable(Conv)
    IN  /\ {str_map[t] : t \in DOMAIN str_map} = 0..(n - 1)
        /\ \A t, u \in DOMAIN str_map : str_map[t] = str_map[u] => t = u
        /\ \A i \in 1..Len(SeedStrings) :
               /\ SeedStrings[i] \in DOMAIN str_map
               /\ str_map[SeedStrings[i]] = i - 1
        /\ Len(table) = n
        /\ \A t \in DOMAIN str_map : table[str_map[t] + 1] = t

\* The function "cpu", named like seeded string 3, was interned with that
\* string id, and another function name took string id 5.
C11_Witness ==
    /\ "cpu" \in DOMAIN function.map
    /\ function.map["cpu"][2] = 3
    /\ \E t \in DOMAIN function.map : function.map[t][2] = 5

\* The Profile message inside the gzip member from_reader wrote last.
EmittedProfile == out[Len(out)].gzip[1].proto

\* C12: when from_reader succeeds (so the frequency is > 0) the profile has
\* exactly one sample per entry of the aggregation map; the sample built
\* from an entry has as many location ids as the entry's stack has frames,
\* the i-th being the location id bound to the i-th frame's address, and
\* its value is [count, count * 1_000_000_000 div frequency], truncated.
C12_SamplePerEntry ==
    result = "ok" =>
        LET p == EmittedProfile
        IN  /\ Len(p.sample) = Cardinality(DOMAIN sample)
            /\ Len(yielded) = Len(p.sample)
            /\ Range(yielded) = DOMAIN sample
            /\ \A i \in 1..Len(p.sample) :
                   LET k == yielded[i]
                       ps == p.sample[i]
                   IN  /\ Len(ps.location_id) = Len(k)
                       /\ \A j \in 1..Len(k) :
                              /\ k[j].pc \in DOMAIN location.map
                              /\ ps.location_id[j] = location.map[k[j].pc][1]
                       /\ ps.value = <<sample[k],
                                       (sample[k] * NanosPerSec) \div perf[1].freq>>

\* A profile was emitted with a sample of two frames at two addresses.
C12_Witness ==
    /\ result = "ok"
    /\ \E i \in 1..Len(EmittedProfile.sample) :
           LET ids == EmittedProfile.sample[i].location_id
           IN  Len(ids) = 2 /\ ids[1] # ids[2]

\* C13: when from_reader succeeds, with frequency F and D the microseconds
\* from the first to the last timestamped event line, the emitted period is
\* 1_000_000_000 div F and the emitted duration_nanos is D * 1000.
C13_PeriodAndDuration ==
    result = "ok" =>
        /\ EmittedProfile.period = NanosPerSec \div perf[1].freq
        /\ EmittedProfile.duration_nanos = (lastTs - firstTs) * 1000

\* C14: no table of the converter persists from one from_reader call to the
\* next: the profile a call emits is the one a newly built converter emits
\* for the same input (the map iterated in the same order), whatever was
\* converted with this converter before.
C14_NoStatePersists ==
    result = "ok" =>
        EmittedProfile = FreshProfile(sample, perf[1], yielded)

\* C15: once a read of the input has returned an I/O error the conversion
\* fails: from_reader does not return Ok and no profile built from the lines
\* read before the error is written to the sink.
C15_ReadErrorFailsConversion ==
    ioError => (result # "ok" /\ out = <<>>)

\* C16: whenever at least two event lines carrying a timestamp were read,
\* whatever the timestamps and the frames of the blocks, PerfReader::new
\* does not return "can't find duration".
C16_TwoStampsPassDurationCheck ==
    (ScanFinished /\ nTs >= 2) => result # "err_duration"

\* C17: lines are classified by a two-state toggle. The first non-header,
\* non-blank line after the start or after a blank line is taken as an
\* event line: it is never pushed as a frame and never ends the scan, with
\* or without a timestamp. Every later non-header, non-blank line before
\* the next blank line is taken as a frame line: it never changes start_usec
\* or end_usec. A header line anywhere leaves the toggle, the stack in
\* progress, the aggregation map and both timestamps as they are.
C17_ToggleClassification ==
    /\ [][(pc = "scan" /\ ~inBlock /\ inBlock') =>
             (stack' = stack /\ sample' = sample /\ pc' = "scan"
              /\ is_event_line /\ ~is_event_line')]_vars
    /\ [][(pc = "scan" /\ inBlock /\ inBlock') =>
             (start_usec' = start_usec /\ end_usec' = end_usec
              /\ is_event_line' = is_event_line)]_vars
    /\ [][(header' # header) =>
             UNCHANGED <<is_event_line, stack, sample, start_usec, end_usec>>]_vars

\* After a header line and a first block that was counted, the first line
\* of the second block, carrying no timestamp, was consumed as an event
\* line: the toggle is off and nothing was pushed.
C17_Witness ==
    /\ pc = "scan"
    /\ header # <<>>
    /\ Len(finalized) = 1
    /\ inBlock
    /\ ~is_event_line
    /\ stack = <<>>
    /\ ~blockDropped
    /\ nTs = 0

\* Decompressing a byte stream that is one gzip member: the member's payload.
Gunzip(bytes) == bytes[1].gzip

\* C18: the file the binary has written when it exits successfully is the
\* serialized profile gzip-compressed exactly once: it is one complete gzip
\* member, and decompressing it a single time gives the bytes of the
\* serialized Profile message.
C18_FileGzippedOnce ==
    pc = "exited" =>
        /\ Len(file) = 1
        /\ file[1].complete
        /\ Gunzip(file) = Encode(EmittedProfile)

\* C19: every emitted profile, whatever was converted with the converter
\* before, is referentially closed: each location id of a sample is the id
\* of exactly one emitted location; each location has exactly one line
\* record, with line 0, whose function id is the id of exactly one emitted
\* function; each function's name is a valid position of the emitted
\* string_table and the string there is the name interned under that
\* function id.
C19_ReferentialIntegrity ==
    result = "ok" =>
        LET p == EmittedProfile
        IN  /\ \A i \in 1..Len(p.sample) :
                   \A j \in 1..Len(p.sample[i].location_id) :
                       Cardinality({k \in 1..Len(p.location) :
                           p.location[k].id = p.sample[i].location_id[j]}) = 1
            /\ \A k \in 1..Len(p.location) :
                   /\ Len(p.location[k].line) = 1
                   /\ p.location[k].line[1].line = 0
                   /\ Cardinality({f \in 1..Len(p.function) :
                          p.function[f].id = p.location[k].line[1].function_id}) = 1
            /\ \A f \in 1..Len(p.function) :
                   /\ p.function[f].name \in 0..(Len(p.string_table) - 1)
                   /\ p.function[f].id \in 1..Len(funcOrder)
                   /\ p.string_table[p.function[f].name + 1] = funcOrder[p.function[f].id]

\* The second call on a converter emitted a profile with two locations,
\* one of them for the function named like the seeded string "cpu".
C19_Witness ==
    /\ ncalls = 2
    /\ result = "ok"
    /\ Len(EmittedProfile.location) = 2
    /\ \E f \in 1..Len(EmittedProfile.function) : EmittedProfile.function[f].name = 3

====
